---- MODULE Spec2Model ----
(***************************************************************************)
(* TierMaker: the AniDB catalog client (utils/anidb.ts).                   *)
(*                                                                         *)
(* getAnimeByAid looks one AID up: persisted cache first, then one rate    *)
(* limited HTTP request.  searchAnidbAnime resolves a keyword to a list of *)
(* AIDs and looks them up one after the other.  The search modal of        *)
(* TierRow.vue starts a searchAnidbAnime run on every debounced keyword    *)
(* change, without waiting for an earlier run, so runs may overlap.        *)
(*                                                                         *)
(* Time is the value of Date.now() in milliseconds.  One action is one     *)
(* task of the browser's event loop; a timer may fire late, never early.   *)
(***************************************************************************)
EXTENDS Integers, Sequences, FiniteSets, TLC

\* ---------------------------------------------------------------- bounds
NumIds == 2          \* AIDs 1..NumIds
MaxBatchLen == 2     \* longest page of AIDs handled by one search
NumCallers == 2      \* searchAnidbAnime runs that may overlap
MaxTicks == 2        \* clock advances explored
MaxPictureLen == 3   \* longest text of a picture element, in tokens
NumTitleCallers == 2 \* concurrent callers of loadAnimeTitles
MaxTitleLines == 2   \* most lines of anime-titles.dat
MaxPage == 2         \* highest page number asked of searchAnidbAnime
MaxResults == 2      \* largest page size asked of searchAnidbAnime
NumDefaultTiers == 2 \* entries of DEFAULT_TIER_CONFIGS
MaxRows == 2         \* most rows of one tier
MaxRuns == 2         \* handleSearch runs started in the search modal

\* ------------------------------------------------------ program constants
REQUEST_INTERVAL == 10000
CACHE_HIT_DELAY == 100

Ids == 1..NumIds
Callers == 1..NumCallers
None == "none"
\* contents the remote catalog may hold for an AID (it may change over time)
Payloads == {"p1", "p2"}
\* Date.now() when the page starts: far above REQUEST_INTERVAL
StartTime == 3 * REQUEST_INTERVAL
\* clock advances: the delay of a cache hit, half a rate-limit window and a
\* whole one
TickSteps == {CACHE_HIT_DELAY, REQUEST_INTERVAL \div 2, REQUEST_INTERVAL}

\* shapes of the answer to the HTTP request of getAnimeByAid
ResponseShapes ==
  {"anime", "empty", "httpError", "opaque", "transport", "bodyError",
   "badXml", "errorPlain", "errorAttr", "bannedPlain", "bannedAttr"}

VARIABLES
  now,              \* Date.now()
  ticks,            \* clock advances so far
  lastRequestTime,  \* module variable of anidb.ts
  cache,            \* localStorage['anidb-api-cache']: AID -> payload or None
  titlesLoaded,     \* anime-titles.dat could be loaded into titleIndex
  batch,            \* per caller: the searchAnidbAnime run and its current lookup
  sendLog,          \* times of the two most recent HTTP sends
  liveReturned,     \* AIDs for which a live fetch has returned a record
  liveStored        \* AIDs for which a live fetch has returned a record and stored it

\* one response on its way through parseXML, extractAnimeData and
\* convertAnidbToSearchResult
VARIABLES norm

anidbVars == <<now, ticks, lastRequestTime, cache, titlesLoaded, batch, sendLog,
               liveReturned, liveStored>>
\* anidb-titles.ts
VARIABLES
  titleIndex,       \* "null", "index", or "emptyIndex" (a file without entries)
  isLoading,        \* module variable
  loadPromise,      \* 0 for null, else the number of the promise in loads
  loads,            \* the promises loadAnimeTitles has created
  titleCaller       \* per caller: the call in progress

titleVars == <<titleIndex, isLoading, loadPromise, loads, titleCaller>>
\* one call of searchAnimeTitles or searchAnidbAnime on a loaded title index
VARIABLES search

\* App.vue and ConfigModal.vue
VARIABLES
  tiers,            \* App.vue: the tiers with their rows and items
  tierConfigs,      \* App.vue: the tier configuration
  showConfig,       \* App.vue: the config modal is open
  localConfigs      \* ConfigModal.vue: the configuration being edited

tierVars == <<tiers, tierConfigs, showConfig, localConfigs>>

\* utils/storage.ts
VARIABLES
  localStorage,     \* window.localStorage, the keys of storage.ts
  storageFull       \* localStorage.setItem throws (quota exceeded)

\* one importAllData(data) and the exportAllData that follows it
VARIABLES importExport

storageVars == <<localStorage, storageFull, importExport>>

\* the search modal: keyword, apiSource, results, loading, error, hasMore,
\* the debounce timer and the handleSearch runs started so far
VARIABLES searchModal

\* the state of the application outside anidb.ts and anidb-titles.ts
appVars == <<search, tierVars, storageVars, searchModal>>
\* the state outside the lookups of anidb.ts
otherModules == <<norm, titleVars, appVars>>
vars == <<anidbVars, otherModules>>

\* ---------------------------------------------------------------- helpers
RECURSIVE DistinctSeqs(_, _)
\* the sequences without repetition over S of length 0..n
DistinctSeqs(S, n) ==
  IF n = 0 THEN {<<>>}
  ELSE LET shorter == DistinctSeqs(S, n - 1)
       IN  shorter \cup
           UNION {{Append(s, x) : x \in S \ {s[k] : k \in 1..Len(s)}} :
                  s \in {t \in shorter : Len(t) = n - 1}}

\* The pages of AIDs a keyword can resolve to.  A keyword of digits is a
\* direct AID query; any other keyword goes through searchAnimeTitles, whose
\* result comes out of a Set (no repetition) and is empty when the title
\* index could not be loaded.
Pages ==
  IF titlesLoaded THEN DistinctSeqs(Ids, MaxBatchLen)
  ELSE {<<>>} \cup {<<a>> : a \in Ids}

\* index.byAid.get(aid) of getAnimeTitles: every AID of the model is in the
\* dataset, so it has titles exactly when the dataset could be loaded
HasLocalTitles(aid) == titlesLoaded

IdleBatch ==
  [pc |-> "idle",        \* where the run is
   ids |-> <<>>,         \* pageAids
   i |-> 1,              \* loop index (from 1)
   results |-> <<>>,     \* searchResults
   deadline |-> 0,       \* when the pending timer is due
   cached |-> None,      \* cachedData of the lookup in flight
   \* history of the run
   started |-> 0,        \* getAnimeByAid calls begun
   outcomes |-> <<>>,    \* how each settled call ended, by position
   nSend |-> 0,          \* HTTP requests sent by the current call
   nWrite |-> 0,         \* saveToCache calls made by the current call
   wrote |-> FALSE,      \* the setItem of the current call went through
   afterLive |-> FALSE,  \* the current call began after a live fetch of its id returned a record
   afterStored |-> FALSE] \* ... and that record had been stored

\* ------------------------------------------------------------- the cache
\* loadCache().get(aid)
CacheGet(c, aid) == c[aid]

\* a saveToCache that forgets the entries already stored
SaveToCacheOverwriting(c, aid, data, writeOk) ==
  IF writeOk THEN [a \in Ids |-> IF a = aid THEN data ELSE None] ELSE c

\* a saveToCache that empties the store when its write fails
SaveToCacheClearingOnFailure(c, aid, data, writeOk) ==
  IF writeOk THEN [c EXCEPT ![aid] = data] ELSE [a \in Ids |-> None]

\* a saveToCache that never stores
SaveToCacheDropping(c, aid, data, writeOk) == c

\* saveToCache: load, set, store; a throwing setItem leaves the stored value
SaveToCache(c, aid, data, writeOk) ==
  IF writeOk THEN [c EXCEPT ![aid] = data] ELSE c

\* ------------------------------------------------------ the rate limiter
\* a limiter that never waits
MayRequestNowAlways(t, last) == TRUE

\* waitForRequestInterval: timeSinceLastRequest >= REQUEST_INTERVAL
MayRequestNow(t, last) == t - last >= REQUEST_INTERVAL

\* waitForRequestInterval: waitTime
WaitTime(t, last) == REQUEST_INTERVAL - (t - last)

LogSend(log, t) == IF Len(log) < 2 THEN Append(log, t) ELSE <<log[2], t>>

\* ------------------------------------------------- getAnimeByAid, step 3
Thrown(type, msg) == [kind |-> type, payload |-> None, msg |-> msg]

\* what the try block of getAnimeByAid does with the answer
TryBlock(shape, payload) ==
  CASE shape = "transport"   -> Thrown("TypeError", "fetch")
    [] shape = "bodyError"   -> Thrown("TypeError", "other")
    [] shape = "opaque"      -> Thrown("AnidbError", "cors")
    [] shape = "httpError"   -> Thrown("AnidbError", "http")
    [] shape = "errorPlain"  -> Thrown("AnidbError", "apiError")
    [] shape = "bannedPlain" -> Thrown("AnidbError", "apiError")
    [] shape = "badXml"      -> Thrown("AnidbError", "xmlParse")
    [] shape = "errorAttr"   -> Thrown("AnidbError", "errorText")
    [] shape = "bannedAttr"  -> Thrown("AnidbError", "banned")
    [] shape = "empty"       -> [kind |-> "null", payload |-> None, msg |-> None]
    [] shape = "anime"       -> [kind |-> "record", payload |-> payload, msg |-> "api"]

\* a catch block that lets foreign errors through
CatchBlockRethrowing(out) == out

\* the catch block of getAnimeByAid
CatchBlock(out) ==
  IF out.kind = "TypeError"
  THEN IF out.msg = "fetch" THEN Thrown("AnidbError", "connect")
       ELSE Thrown("AnidbError", "network")
  ELSE out

GetAnimeOutcome(shape, payload) == CatchBlock(TryBlock(shape, payload))

IsThrown(out) == out.kind \notin {"record", "null"}

\* a lookup that stores whatever came back
StoresOutcomeAlways(out) == TRUE

\* if (animeData) saveToCache(aid, animeData)
StoresOutcome(out) == out.kind = "record"

\* a cache hit that returns at once
CacheHitNoDelay(call, t, data) ==
  [call EXCEPT !.pc = "hitWait", !.deadline = t, !.cached = data]

\* if (cachedData): arm the 100 ms timer, keep the record read from the cache
CacheHit(call, t, data) ==
  [call EXCEPT !.pc = "hitWait", !.deadline = t + CACHE_HIT_DELAY,
               !.cached = data]

\* --------------------------------------------- searchAnidbAnime, the loop
\* a loop that does not await the lookup before going on
CanBeginLookupNoAwait(st) == st.pc \in {"loop", "hitWait", "rateWait", "fetching"}

\* the loop is at the top of an iteration: the previous await has returned
CanBeginLookup(st) == st.pc = "loop"

\* an inner catch that rethrows the client's own errors
InnerCatchHandlesForeign(out) == IsThrown(out) /\ out.kind # "AnidbError"

\* catch (error) of the loop body: any thrown value
InnerCatchHandles(out) == IsThrown(out)

\* convertAnidbToSearchResult(animeData); src tells a cached record ("cache")
\* from a fetched one ("api")
RecordEntry(pos, aid, out) ==
  [pos |-> pos, aid |-> aid, src |-> out.msg, payload |-> out.payload]

\* the entry built from the local titles after a failed lookup
FallbackEntry(pos, aid) ==
  [pos |-> pos, aid |-> aid, src |-> "titles", payload |-> None,
   images |-> [small |-> <<>>, grid |-> <<>>, large |-> <<>>, medium |-> <<>>]]

\* results.unshift instead of results.push
PushFront(results, e) == <<e>> \o results

\* searchResults.push
Push(results, e) == Append(results, e)

\* a loop body that drops the ids whose lookup threw
HandleOutcomeWithoutFallback(results, pos, aid, out) ==
  IF out.kind = "record" THEN Push(results, RecordEntry(pos, aid, out))
  ELSE results

\* the body of the loop after await getAnimeByAid(aid) has settled
HandleOutcome(results, pos, aid, out) ==
  IF out.kind = "record" THEN Push(results, RecordEntry(pos, aid, out))
  ELSE IF out.kind = "null" THEN results
  ELSE IF HasLocalTitles(aid) THEN Push(results, FallbackEntry(pos, aid))
  ELSE results

\* the lookup of st.ids[st.i] has settled with out
Settle(st, aid, out) ==
  IF IsThrown(out) /\ ~InnerCatchHandles(out)
  THEN [st EXCEPT !.pc = "rejected", !.outcomes = Append(@, out.kind),
                  !.deadline = 0, !.cached = None]
  ELSE [st EXCEPT !.pc = "loop", !.outcomes = Append(@, out.kind),
                  !.deadline = 0, !.cached = None,
                  !.results = HandleOutcome(@, st.i, aid, out),
                  !.i = @ + 1]

Sent(st) == [st EXCEPT !.pc = "fetching", !.deadline = 0, !.nSend = @ + 1]

\* ------------------------------------- one response through the normaliser
\* A text is a sequence of tokens; a token stands for the characters it
\* spells.  The empty string is <<>>.
DigitTokens == {"0", "1"}
SlashTokens == {"/", "http://"}
PictureTokens == {"1", "a", "/", " ", ".jpg", ".PNG", ".bmp", "http://"}
KnownExtensions == {".jpg", ".jpeg", ".png", ".gif", ".webp"}
CdnPrefix == "https://cdn-eu.anidb.net/images/main/"

RECURSIVE TextsOver(_, _)
\* the texts over the tokens S of length 0..n
TextsOver(S, n) ==
  IF n = 0 THEN {<<>>}
  ELSE LET shorter == TextsOver(S, n - 1)
       IN  shorter \cup
           {Append(t, x) : t \in {u \in shorter : Len(u) = n - 1}, x \in S}

\* String.prototype.toLowerCase, token by token
ToLowerCase(tok) ==
  CASE tok = ".PNG" -> ".png"
    [] tok = "Banned" -> "banned"
    [] tok = "K" -> "k"
    [] OTHER -> tok

RECURSIVE TrimStart(_)
TrimStart(t) == IF t # <<>> /\ Head(t) = " " THEN TrimStart(Tail(t)) ELSE t

RECURSIVE TrimEnd(_)
TrimEnd(t) ==
  IF t # <<>> /\ t[Len(t)] = " " THEN TrimEnd(SubSeq(t, 1, Len(t) - 1)) ELSE t

\* String.prototype.trim
Trim(t) == TrimEnd(TrimStart(t))

\* pictureValue.startsWith('http://') || pictureValue.startsWith('https://')
IsFullUrl(t) == t # <<>> /\ Head(t) = "http://"

\* imageId.split('/').pop() || imageId, when imageId includes '/'
FileName(t) ==
  LET slashes == {k \in 1..Len(t) : t[k] \in SlashTokens}
  IN  IF slashes = {} THEN t
      ELSE LET last == CHOOSE k \in slashes : \A m \in slashes : m <= k
               tail == SubSeq(t, last + 1, Len(t))
           IN  IF tail = <<>> THEN t ELSE tail

\* imageId.replace(/\.(jpg|jpeg|png|gif|webp)$/i, '')
StripExtension(t) ==
  IF t # <<>> /\ ToLowerCase(t[Len(t)]) \in KnownExtensions
  THEN SubSeq(t, 1, Len(t) - 1) ELSE t

\* /^\d+$/.test(imageIdWithoutExt)
IsDigits(t) == t # <<>> /\ \A k \in 1..Len(t) : t[k] \in DigitTokens

NoPicture == [present |-> FALSE, text |-> <<>>]

\* a converter that builds a URL whatever the picture field holds
BuildPictureUrlFromAnything(picture) ==
  LET value == Trim(picture.text)
      stem == StripExtension(FileName(value))
  IN  IF IsFullUrl(value) THEN value
      ELSE IF IsDigits(stem) THEN <<CdnPrefix>> \o stem \o <<".jpg">>
      ELSE <<CdnPrefix>> \o value

\* convertAnidbToSearchResult: pictureUrl
BuildPictureUrl(picture) ==
  IF ~picture.present \/ picture.text = <<>> \/ Trim(picture.text) = <<>>
  THEN <<>>
  ELSE LET value == Trim(picture.text)
           stem == StripExtension(FileName(value))
       IN  IF IsFullUrl(value) THEN value
           ELSE IF IsDigits(stem) THEN <<CdnPrefix>> \o stem \o <<".jpg">>
           ELSE <<CdnPrefix>> \o value

\* the title elements of a response: type, language, text
TitleFixtures ==
  {<<>>,
   <<[type |-> "main", lang |-> "x-jat", text |-> "T"]>>,
   <<[type |-> "official", lang |-> "en", text |-> "E"]>>,
   <<[type |-> "official", lang |-> "zh-Hans", text |-> "Z"],
     [type |-> "main", lang |-> "x-jat", text |-> "T"]>>,
   <<[type |-> "main", lang |-> "ja", text |-> ""]>>}

\* the texts of an error element; NL is a line break
ErrorTexts ==
  {<<>>, <<"banned">>, <<"Banned">>, <<"ip", " ", "banned">>,
   <<"Banned", "NL">>, <<"aid missing">>, <<"aid missing", "NL">>}

BlankDoc ==
  [root |-> "other", id |-> "", titles |-> <<>>, picture |-> NoPicture,
   errAttrs |-> FALSE, errText |-> <<>>]

\* the response bodies: an anime element, an error element with or without
\* attributes, some other document, and text that is not XML
ResponseDocs ==
  {[BlankDoc EXCEPT !.root = "anime", !.id = i, !.titles = t, !.picture = p] :
      i \in {"", "7"}, t \in TitleFixtures,
      p \in {NoPicture} \cup
            {[present |-> TRUE, text |-> x] :
                x \in TextsOver(PictureTokens, MaxPictureLen)}}
  \cup {[BlankDoc EXCEPT !.root = "error", !.errAttrs = a, !.errText = e] :
          a \in BOOLEAN, e \in ErrorTexts}
  \cup {BlankDoc, [BlankDoc EXCEPT !.root = "garbage"]}

NoData == [id |-> "", titles |-> <<>>, picture |-> NoPicture]

\* records a cache written by this or an earlier version may hold
CachedRecords ==
  {[NoData EXCEPT !.id = "7", !.titles = t, !.picture = p] :
      t \in {<<>>, <<[type |-> "main", lang |-> "x-jat", text |-> "T"]>>},
      p \in {NoPicture} \cup
            {[present |-> TRUE, text |-> x] :
                x \in TextsOver(PictureTokens, MaxPictureLen)}}

Failure(msg) == [kind |-> "AnidbError", msg |-> msg, data |-> NoData]

\* errorText.toLowerCase().includes('banned')
IncludesBanned(t) == \E k \in 1..Len(t) : ToLowerCase(t[k]) = "banned"

\* extractAnimeData: the picture element
ExtractPicture(el) ==
  IF el.present /\ Trim(el.text) # <<>>
  THEN [present |-> TRUE, text |-> Trim(el.text)]
  ELSE NoPicture

\* extractAnimeData
ExtractAnimeData(doc) ==
  IF doc.root = "anime"
  THEN [kind |-> "record", msg |-> "api",
        data |-> [id |-> doc.id,
                  titles |-> SelectSeq(doc.titles, LAMBDA t : t.text # ""),
                  picture |-> ExtractPicture(doc.picture)]]
  ELSE IF doc.root = "error"
  THEN IF IncludesBanned(doc.errText) THEN Failure("banned")
       ELSE Failure("errorText")
  ELSE [kind |-> "null", msg |-> None, data |-> NoData]

\* xmlText.includes('<error>') and the match of /<error[^>]*>(.*?)<\/error>/:
\* an error element without attributes whose text has no line break
MatchesErrorPattern(doc) ==
  /\ doc.root = "error"
  /\ ~doc.errAttrs
  /\ \A k \in 1..Len(doc.errText) : doc.errText[k] # "NL"

\* getAnimeByAid from the text of the response to animeData
ParseResponse(doc) ==
  IF MatchesErrorPattern(doc) THEN Failure("apiError")
  ELSE IF doc.root = "garbage" THEN Failure("xmlParse")
  ELSE ExtractAnimeData(doc)

\* titles.find(t => t._type === 'main') || titles[0]
MainTitleText(titles) ==
  LET mains == {k \in 1..Len(titles) : titles[k].type = "main"}
  IN  IF mains # {}
      THEN titles[CHOOSE k \in mains : \A m \in mains : k <= m].text
      ELSE IF titles # <<>> THEN titles[1].text
      ELSE ""

\* convertAnidbToSearchResult
ConvertAnidbToSearchResult(data) ==
  LET url == BuildPictureUrl(data.picture)
  IN  [id |-> <<"anidb_", data.id>>,
       aid |-> IF data.id = "" THEN "NaN" ELSE data.id,
       name |-> MainTitleText(data.titles),
       images |-> [small |-> url, grid |-> url, large |-> url, medium |-> url]]

NormIdle ==
  [stage |-> "idle", origin |-> "none", doc |-> BlankDoc, out |-> Failure(None),
   data |-> NoData, result |-> ConvertAnidbToSearchResult(NoData)]

\* ----------------------------------------- anidb-titles.ts: loading the index
TitleCallers == 1..NumTitleCallers
\* the exported functions that call loadAnimeTitles, and searchAnidbAnime with
\* a keyword that is not a number
CallKinds == {"initAnimeTitles", "searchAnimeTitles", "getAnimeTitles",
              "searchAnidbAnime"}

IdleTitleCaller == [pc |-> "idle", kind |-> "none", load |-> 0, result |-> "none"]

\* a loadAnimeTitles that starts a load of its own every time
SharesLoadNever(loading, promise) == FALSE

\* if (isLoading && loadPromise) return loadPromise
SharesLoad(loading, promise) == loading /\ promise # 0

\* an initAnimeTitles without its try/catch
CatchesLoadFailureButInit(kind) == kind # "initAnimeTitles"

\* the try/catch around await loadAnimeTitles() in initAnimeTitles,
\* searchAnimeTitles and getAnimeTitles; searchAnidbAnime calls
\* searchAnimeTitles
CatchesLoadFailure(kind) == kind \in CallKinds

\* what the caller makes of the settled load: index is the value the promise
\* resolved with, or "null" when it rejected
ResultOf(kind, index) ==
  IF index = "null" /\ ~CatchesLoadFailure(kind) THEN "rejected"
  ELSE CASE kind = "initAnimeTitles" -> "void"
         [] kind = "searchAnimeTitles" ->
              IF index = "index" THEN "aids" ELSE "empty"
         [] kind = "getAnimeTitles" ->
              IF index = "index" THEN "titles" ELSE "empty"
         [] kind = "searchAnidbAnime" ->
              IF index = "index" THEN "lookups" ELSE "noResults"

\* the catch of the load: isLoading = false; loadPromise = null; throw
LoadFailed(k) ==
  /\ loads' = [loads EXCEPT ![k] = [@ EXCEPT !.status = "rejected"]]
  /\ isLoading' = FALSE
  /\ loadPromise' = 0
  /\ UNCHANGED titleIndex

TitlesIdle ==
  /\ titleIndex = "null"
  /\ isLoading = FALSE
  /\ loadPromise = 0
  /\ loads = <<>>
  /\ titleCaller = [c \in TitleCallers |-> IdleTitleCaller]

\* ------------------------------- anidb-titles.ts: searching the index
\* the lines of anime-titles.dat that parseAnimeTitles keeps: AID|TYPE|LANG|TITLE
\* with type 1 the primary title
LineKinds ==
  {[type |-> 1, lang |-> "x-jat"], [type |-> 4, lang |-> "en"],
   [type |-> 4, lang |-> "zh-Hans"]}
LineTitles == {<<"K">>, <<"K", "x">>}
TitleLines ==
  {[aid |-> a, type |-> k.type, lang |-> k.lang, title |-> t] :
      a \in Ids, k \in LineKinds, t \in LineTitles}

\* keywords typed into the search box
Keywords == {<<" ", "K">>, <<"x">>, <<"1">>, <<"0">>, <<" ">>}

\* String.prototype.toLowerCase on a whole text
LowerText(t) == [k \in 1..Len(t) |-> ToLowerCase(t[k])]

\* String.prototype.includes
Includes(t, sub) ==
  \E k \in 0..(Len(t) - Len(sub)) : SubSeq(t, k + 1, k + Len(sub)) = sub

\* Set.prototype.add in insertion order, for every element of a list
RECURSIVE AddAll(_, _)
AddAll(acc, xs) ==
  IF xs = <<>> THEN acc
  ELSE AddAll(IF \E k \in 1..Len(acc) : acc[k] = Head(xs)
              THEN acc ELSE Append(acc, Head(xs)),
              Tail(xs))

\* parseAnimeTitles: the keys of byTitle, in the order of their first line
RECURSIVE ByTitleKeys(_)
ByTitleKeys(lines) ==
  IF lines = <<>> THEN <<>>
  ELSE AddAll(ByTitleKeys(SubSeq(lines, 1, Len(lines) - 1)),
              <<LowerText(lines[Len(lines)].title)>>)

\* parseAnimeTitles: byTitle.get(key), in insertion order
ByTitleGet(lines, key) ==
  AddAll(<<>>, [k \in 1..Len(SelectSeq(lines, LAMBDA l : LowerText(l.title) = key))
                  |-> SelectSeq(lines, LAMBDA l : LowerText(l.title) = key)[k].aid])

\* titles.some(t => t.type === 1 && t.title.toLowerCase().includes(keywordLower))
HasPrimary(lines, aid, keywordLower) ==
  \E k \in 1..Len(lines) :
    /\ lines[k].aid = aid
    /\ lines[k].type = 1
    /\ Includes(LowerText(lines[k].title), keywordLower)

\* titles.some(t => (t.lang is zh, zh-Hans or zh-Hant) && the title includes)
HasChinese(lines, aid, keywordLower) ==
  \E k \in 1..Len(lines) :
    /\ lines[k].aid = aid
    /\ lines[k].lang \in {"zh", "zh-Hans", "zh-Hant"}
    /\ Includes(LowerText(lines[k].title), keywordLower)

\* a comparator that ranks by the primary title alone
CompareAidsPrimaryOnly(lines, keywordLower, aid1, aid2) ==
  LET hasPrimary1 == HasPrimary(lines, aid1, keywordLower)
      hasPrimary2 == HasPrimary(lines, aid2, keywordLower)
  IN  IF hasPrimary1 /\ ~hasPrimary2 THEN -1
      ELSE IF ~hasPrimary1 /\ hasPrimary2 THEN 1
      ELSE 0

\* the comparator of result.sort in searchAnimeTitles
CompareAids(lines, keywordLower, aid1, aid2) ==
  LET hasPrimary1 == HasPrimary(lines, aid1, keywordLower)
      hasPrimary2 == HasPrimary(lines, aid2, keywordLower)
      hasChinese1 == HasChinese(lines, aid1, keywordLower)
      hasChinese2 == HasChinese(lines, aid2, keywordLower)
  IN  IF hasPrimary1 /\ ~hasPrimary2 THEN -1
      ELSE IF ~hasPrimary1 /\ hasPrimary2 THEN 1
      ELSE IF hasChinese1 /\ ~hasChinese2 THEN -1
      ELSE IF ~hasChinese1 /\ hasChinese2 THEN 1
      ELSE 0

\* Array.prototype.sort is stable: an element goes behind every element that
\* the comparator does not put after it
RECURSIVE SortAids(_, _, _)
SortAids(lines, keywordLower, aids) ==
  IF aids = <<>> THEN <<>>
  ELSE LET n == Len(aids)
           x == aids[n]
           front == SortAids(lines, keywordLower, SubSeq(aids, 1, n - 1))
           behind == {k \in 1..Len(front) :
                        CompareAids(lines, keywordLower, x, front[k]) < 0}
           at == IF behind = {} THEN Len(front) + 1
                 ELSE CHOOSE k \in behind : \A m \in behind : k <= m
       IN  SubSeq(front, 1, at - 1) \o <<x>> \o SubSeq(front, at, Len(front))

\* the loop over index.byTitle.entries(), from entry i on
RECURSIVE FuzzyMatch(_, _, _, _, _)
FuzzyMatch(lines, keywordLower, limit, i, matchedAids) ==
  LET keys == ByTitleKeys(lines)
  IN  IF i > Len(keys) THEN matchedAids
      ELSE LET added == IF Includes(keys[i], keywordLower)
                        THEN AddAll(matchedAids, ByTitleGet(lines, keys[i]))
                        ELSE matchedAids
           IN  IF Len(added) >= limit * 2 THEN added
               ELSE FuzzyMatch(lines, keywordLower, limit, i + 1, added)

\* searchAnimeTitles: matchedAids when the loop is over, the exact match first
MatchedAids(lines, keywordLower, limit) ==
  FuzzyMatch(lines, keywordLower, limit, 1, ByTitleGet(lines, keywordLower))

\* Array.prototype.slice(0, n)
SliceTo(xs, n) == SubSeq(xs, 1, IF n < Len(xs) THEN n ELSE Len(xs))

\* searchAnimeTitles; an index that could not be loaded makes loadAnimeTitles
\* throw, and the catch returns []
SearchAnimeTitles(index, keyword, limit) ==
  IF Trim(keyword) = <<>> \/ ~index.loaded THEN <<>>
  ELSE LET keywordLower == Trim(LowerText(keyword))
           result == SliceTo(MatchedAids(index.lines, keywordLower, limit), limit)
       IN  SliceTo(SortAids(index.lines, keywordLower, result), limit)

\* ------------------------------------ anidb.ts: searchAnidbAnime, the page
\* parseInt of a text of digits
RECURSIVE ParseInt(_)
ParseInt(t) ==
  IF t = <<>> THEN 0
  ELSE 10 * ParseInt(SubSeq(t, 1, Len(t) - 1))
       + (IF t[Len(t)] = "1" THEN 1 ELSE 0)

\* null, for a number
NullAid == -1

\* /^\d+$/.test(keywordTrimmed) ? parseInt(keywordTrimmed) : null
DirectAid(keywordTrimmed) ==
  IF IsDigits(keywordTrimmed) THEN ParseInt(keywordTrimmed) ELSE NullAid

\* if (directAid): null and 0 are falsy
Truthy(aid) == aid # NullAid /\ aid # 0

\* searchAnidbAnime up to the loop over pageAids: whether searchAnimeTitles was
\* called, the ids it or the keyword gave, the ids of the page, and hasMore
SearchPage(index, keyword, page, results) ==
  IF Trim(keyword) = <<>>
  THEN [consulted |-> FALSE, matchedAids |-> <<>>, pageAids |-> <<>>,
        more |-> FALSE]
  ELSE LET directAid == DirectAid(Trim(keyword))
           matchedAids == IF Truthy(directAid) THEN <<directAid>>
                          ELSE SearchAnimeTitles(index, keyword, results * page)
           startIndex == (page - 1) * results
           endIndex == startIndex + results
       IN  [consulted |-> ~Truthy(directAid),
            matchedAids |-> matchedAids,
            pageAids |-> SubSeq(matchedAids, startIndex + 1,
                                IF endIndex < Len(matchedAids) THEN endIndex
                                ELSE Len(matchedAids)),
            more |-> Len(matchedAids) > endIndex]

\* the title indexes: loaded from up to MaxTitleLines lines, or not loaded
TitleIndexes ==
  {[loaded |-> TRUE, lines |-> l] : l \in TextsOver(TitleLines, MaxTitleLines)}
    \cup {[loaded |-> FALSE, lines |-> <<>>]}

SearchIdle ==
  [stage |-> "idle", index |-> [loaded |-> FALSE, lines |-> <<>>],
   keyword |-> <<>>, page |-> 1, results |-> 1, aids |-> <<>>,
   consulted |-> FALSE, more |-> FALSE]

\* ------------------------------------------------------ utils/storage.ts
STORAGE_KEY == "tier-list-data"
TIER_CONFIG_KEY == "tier-config"
TITLE_KEY == "tier-list-title"
StorageKeys == {STORAGE_KEY, TIER_CONFIG_KEY, TITLE_KEY}

\* fontSize of the default configurations, and of config.fontSize ?? 32
DefaultFontSize == 32
\* a configuration without fontSize
NoFontSize == 0

DefaultTierIds == <<"T1", "T2", "T3", "T4", "T5">>
Letters == <<"A", "B", "C", "D", "E", "F">>

DEFAULT_TIER_CONFIGS ==
  [k \in 1..NumDefaultTiers |->
     [id |-> DefaultTierIds[k], order |-> k - 1, fontSize |-> DefaultFontSize]]

\* `${tierId}-row-${n}`
RowId(tierId, n) == [tier |-> tierId, n |-> n]

\* { id: config.id, rows: [{ id: `${config.id}-row-0`, items: [] }] }
EmptyTier(id) == [id |-> id, rows |-> <<[id |-> RowId(id, 0), items |-> <<>>]>>]

DefaultTiers == [k \in 1..NumDefaultTiers |-> EmptyTier(DEFAULT_TIER_CONFIGS[k].id)]

\* a key without a value; getItem returns null
Absent == [present |-> FALSE, value |-> <<>>]

\* localStorage.setItem(key, value) inside try/catch: when it throws, the
\* catch logs and the store keeps what it had
SetItem(store, full, key, value) ==
  IF full THEN store
  ELSE [store EXCEPT ![key] = [present |-> TRUE, value |-> value]]

\* localStorage.removeItem(key)
RemoveItem(store, key) == [store EXCEPT ![key] = Absent]

\* saveTierData
SaveTierData(store, full, ts) == SetItem(store, full, STORAGE_KEY, ts)

\* saveTierConfigs
SaveTierConfigs(store, full, configs) == SetItem(store, full, TIER_CONFIG_KEY, configs)

\* saveTitle: a blank title removes the key, any other is stored trimmed
SaveTitle(store, full, text) ==
  IF text # <<>> /\ Trim(text) # <<>>
  THEN SetItem(store, full, TITLE_KEY, Trim(text))
  ELSE RemoveItem(store, TITLE_KEY)

\* loadTierData: the stored tiers, or the default tiers
LoadTierData(store) ==
  IF store[STORAGE_KEY].present THEN store[STORAGE_KEY].value ELSE DefaultTiers

\* loadTierConfigs: the stored configurations with fontSize ?? 32, or the
\* default configurations
LoadTierConfigs(store) ==
  IF store[TIER_CONFIG_KEY].present
  THEN [k \in 1..Len(store[TIER_CONFIG_KEY].value) |->
          LET config == store[TIER_CONFIG_KEY].value[k]
          IN  [config EXCEPT !.fontSize =
                 IF @ = NoFontSize THEN DefaultFontSize ELSE @]]
  ELSE DEFAULT_TIER_CONFIGS

\* the title loadTitle returns when none is stored
DefaultTitle == <<"default Tier List">>

\* loadTitle
LoadTitle(store) ==
  IF store[TITLE_KEY].present /\ store[TITLE_KEY].value # <<>>
  THEN store[TITLE_KEY].value ELSE DefaultTitle

\* the tiers an exported file or an earlier session may hold
StoredTiers ==
  {<<>>, DefaultTiers,
   <<[id |-> "T1", rows |-> <<[id |-> RowId("T1", 0), items |-> <<"a1">>]>>]>>}

\* the configurations an exported file or an earlier session may hold; files
\* written before fontSize existed have none
StoredConfigs ==
  {<<>>, DEFAULT_TIER_CONFIGS,
   <<[id |-> "T1", order |-> 0, fontSize |-> NoFontSize]>>,
   <<[id |-> "B", order |-> 0, fontSize |-> 24],
     [id |-> "T1", order |-> 1, fontSize |-> NoFontSize]>>}

\* the title field of a file; <<>> is a missing or empty title
FileTitles == {<<>>, <<" ">>, <<"T">>, <<" ", "T", " ">>}

\* the parsed files handed to importAllData: tiers and tierConfigs may be
\* missing
ImportFiles ==
  {[hasTiers |-> ht, tiers |-> IF ht THEN t ELSE <<>>,
    hasConfigs |-> hc, tierConfigs |-> IF hc THEN c ELSE <<>>,
    title |-> x] :
     ht \in BOOLEAN, t \in StoredTiers, hc \in BOOLEAN, c \in StoredConfigs,
     x \in FileTitles}

\* what earlier sessions may have left in localStorage
EarlierStores ==
  {[k \in StorageKeys |->
      CASE k = STORAGE_KEY -> t
        [] k = TIER_CONFIG_KEY -> c
        [] k = TITLE_KEY -> x] :
     t \in {Absent, [present |-> TRUE, value |-> DefaultTiers]},
     c \in {Absent, [present |-> TRUE, value |-> DEFAULT_TIER_CONFIGS]},
     x \in {Absent, [present |-> TRUE, value |-> <<"Old">>]}}

\* importAllData: the store afterwards
ImportedStore(store, full, data) ==
  IF ~data.hasTiers \/ ~data.hasConfigs THEN store
  ELSE LET saved == SaveTierConfigs(SaveTierData(store, full, data.tiers),
                                    full, data.tierConfigs)
       IN  IF data.title # <<>> THEN SaveTitle(saved, full, data.title)
           ELSE saved

\* importAllData: success.  saveTierData, saveTierConfigs and saveTitle catch
\* what setItem throws, so the catch of importAllData never sees it
ImportSuccess(data) == data.hasTiers /\ data.hasConfigs

\* exportAllData, without exportDate and version
ExportAllData(store) ==
  [tiers |-> LoadTierData(store), tierConfigs |-> LoadTierConfigs(store),
   title |-> LoadTitle(store)]

NoFile ==
  [hasTiers |-> FALSE, tiers |-> <<>>, hasConfigs |-> FALSE,
   tierConfigs |-> <<>>, title |-> <<>>]

ImportExportIdle ==
  [stage |-> "idle", data |-> NoFile, before |-> [k \in StorageKeys |-> Absent],
   success |-> FALSE,
   exported |-> [tiers |-> <<>>, tierConfigs |-> <<>>, title |-> <<>>]]

\* a browser that has stored nothing yet
StorageIdle ==
  /\ localStorage = [k \in StorageKeys |-> Absent]
  /\ storageFull = FALSE
  /\ importExport = ImportExportIdle

\* --------------------------------------------------- App.vue: tiers and rows
\* tiers.value.find(t => t.id === tierId), as a position; 0 when there is none
FindTier(ts, tierId) ==
  LET found == {k \in 1..Len(ts) : ts[k].id = tierId}
  IN  IF found = {} THEN 0 ELSE CHOOSE k \in found : \A m \in found : k <= m

\* tier.rows.findIndex(r => r.id === rowId), as a position; 0 for -1
FindRow(rows, rowId) ==
  LET found == {k \in 1..Len(rows) : rows[k].id = rowId}
  IN  IF found = {} THEN 0 ELSE CHOOSE k \in found : \A m \in found : k <= m

\* Array.prototype.splice(index, 1)
RemoveAt(xs, k) == SubSeq(xs, 1, k - 1) \o SubSeq(xs, k + 1, Len(xs))

\* handleAddRow
AddRow(ts, tierId) ==
  LET k == FindTier(ts, tierId)
  IN  IF k = 0 THEN ts
      ELSE [ts EXCEPT ![k].rows =
              Append(@, [id |-> RowId(tierId, Len(@)), items |-> <<>>])]

\* a handleDeleteRow without the test tier.rows.length > 1
DeleteRowUnguarded(ts, tierId, rowId) ==
  LET k == FindTier(ts, tierId)
  IN  IF k = 0 THEN ts
      ELSE LET index == FindRow(ts[k].rows, rowId)
           IN  IF index = 0 THEN ts
               ELSE [ts EXCEPT ![k].rows = RemoveAt(@, index)]

\* handleDeleteRow
DeleteRow(ts, tierId, rowId) ==
  LET k == FindTier(ts, tierId)
  IN  IF k = 0 \/ ~(Len(ts[k].rows) > 1) THEN ts
      ELSE LET index == FindRow(ts[k].rows, rowId)
           IN  IF index = 0 THEN ts
               ELSE [ts EXCEPT ![k].rows = RemoveAt(@, index)]

\* handleAddItem(tierId, rowId, 0) and then handleSelectAnime(anime)
SelectAnime(ts, tierId, rowId, anime) ==
  LET k == FindTier(ts, tierId)
  IN  IF k = 0 THEN ts
      ELSE LET r == FindRow(ts[k].rows, rowId)
           IN  IF r = 0 THEN ts
               ELSE [ts EXCEPT ![k].rows[r].items =
                       IF @ = <<>> THEN <<anime>> ELSE [@ EXCEPT ![1] = anime]]

\* handleUpdateConfigs: oldTierByOrder.get(order), as a position in tiers; 0
\* when the map has no such key.  A later tier overwrites an earlier one.
OldTierByOrder(ts, oldConfigs, order) ==
  LET configOf(k) ==
        LET found == {c \in 1..Len(oldConfigs) : oldConfigs[c].id = ts[k].id}
        IN  IF found = {} THEN 0 ELSE CHOOSE c \in found : \A m \in found : c <= m
      hits == {k \in 1..Len(ts) :
                 configOf(k) # 0 /\ oldConfigs[configOf(k)].order = order}
  IN  IF hits = {} THEN 0 ELSE CHOOSE k \in hits : \A m \in hits : m <= k

\* handleUpdateConfigs: the old tier under its new id; the first row becomes
\* row 0, the other rows keep their number
RenamedTier(tier, id) ==
  [id |-> id,
   rows |-> [r \in 1..Len(tier.rows) |->
               [id |-> RowId(id, IF r = 1 THEN 0 ELSE tier.rows[r].id.n),
                items |-> tier.rows[r].items]]]

\* handleUpdateConfigs: newTiers
UpdateConfigs(ts, oldConfigs, newConfigs) ==
  [c \in 1..Len(newConfigs) |->
     LET old == OldTierByOrder(ts, oldConfigs, newConfigs[c].order)
     IN  IF old # 0 THEN RenamedTier(ts[old], newConfigs[c].id)
         ELSE EmptyTier(newConfigs[c].id)]

\* ------------------------------------------- ConfigModal.vue: localConfigs
\* the modal takes no more tiers than there are defaults
MaxTiers == NumDefaultTiers

\* addTier
AddTier(configs) ==
  Append(configs, [id |-> Letters[Len(configs) + 1], order |-> Len(configs),
                   fontSize |-> NoFontSize])

\* removeTier(index), index counted from 1
RemoveTier(configs, index) ==
  IF Len(configs) > 1
  THEN LET rest == RemoveAt(configs, index)
       IN  [i \in 1..Len(rest) |-> [rest[i] EXCEPT !.order = i - 1]]
  ELSE configs

\* the exchange of localConfigs[index] and localConfigs[index + 1], each
\* taking the order of its new place
SwapWithNext(configs, index) ==
  [i \in 1..Len(configs) |->
     IF i = index THEN [configs[index + 1] EXCEPT !.order = index - 1]
     ELSE IF i = index + 1 THEN [configs[index] EXCEPT !.order = index]
     ELSE configs[i]]

\* moveUp(index), index counted from 1
MoveUp(configs, index) ==
  IF index > 1 THEN SwapWithNext(configs, index - 1) ELSE configs

\* moveDown(index), index counted from 1
MoveDown(configs, index) ==
  IF index < Len(configs) THEN SwapWithNext(configs, index) ELSE configs

\* the anime a search may hand to handleSelectAnime
Animes == {"a1", "a2"}

\* App.vue after onMounted in a browser that has stored nothing
TiersIdle ==
  /\ tiers = DefaultTiers
  /\ tierConfigs = DEFAULT_TIER_CONFIGS
  /\ showConfig = FALSE
  /\ localConfigs = <<>>

\* ------------------------------------------------------- the search modal
ApiSources == {"bangumi", "anidb"}
ModalKeywords == {<<>>, <<"K">>, <<"K", "x">>}

\* what the backend returns for a query: the results name the query
DataOf(keyword, apiSource) == <<[keyword |-> keyword, apiSource |-> apiSource]>>

\* the modal when it has been mounted
ModalIdle ==
  [keyword |-> <<>>, apiSource |-> "bangumi", results |-> <<>>,
   loading |-> FALSE, error |-> <<>>, hasMore |-> TRUE,
   searchTimeout |-> FALSE, runs |-> <<>>]

\* handleSearch up to its await: the run reads keyword and apiSource
StartSearch(m) ==
  [m EXCEPT !.loading = TRUE, !.error = <<>>, !.hasMore = TRUE,
            !.runs = Append(@, [keyword |-> m.keyword, apiSource |-> m.apiSource,
                                pc |-> "awaiting", ok |-> FALSE, more |-> FALSE])]

\* handleSearch after its await: the try, the catch and the finally.  For
\* bangumi hasMore is set to false when fewer than 20 results came, for anidb
\* it is the more of the response
FinishSearch(m, i, ok, more) ==
  LET run == m.runs[i]
      settled == [m EXCEPT !.runs[i].pc = "finished", !.runs[i].ok = ok,
                           !.runs[i].more = more, !.loading = FALSE]
  IN  IF ok
      THEN [settled EXCEPT
              !.results = DataOf(run.keyword, run.apiSource),
              !.hasMore = IF run.apiSource = "bangumi"
                          THEN (IF more THEN @ ELSE FALSE)
                          ELSE more]
      ELSE [settled EXCEPT !.results = <<>>, !.error = <<"search failed">>]

\* ---------------------------------------------------- the application idle
AppIdle ==
  /\ search = SearchIdle
  /\ TiersIdle
  /\ StorageIdle
  /\ searchModal = ModalIdle

\* ------------------------------------------------------------------ Init
\* anidb.ts when the module has been loaded
InitAnidb ==
  /\ now = StartTime
  /\ ticks = 0
  /\ lastRequestTime = 0
  /\ cache = [a \in Ids |-> None]
  /\ titlesLoaded \in BOOLEAN
  /\ batch = [b \in Callers |-> IdleBatch]
  /\ sendLog = <<>>
  /\ liveReturned = {}
  /\ liveStored = {}

Init ==
  /\ InitAnidb
  /\ norm = NormIdle
  /\ TitlesIdle
  /\ AppIdle

\* One search started in the middle of a session: the cache holds what earlier
\* sessions stored, and an earlier search of this session may have sent a
\* request less than REQUEST_INTERVAL ago.
InitSingle ==
  /\ now = StartTime
  /\ ticks = 0
  /\ lastRequestTime \in {0, StartTime - REQUEST_INTERVAL \div 2}
  /\ cache \in [Ids -> {None, "p1"}]
  /\ titlesLoaded \in BOOLEAN
  /\ batch = [b \in Callers |-> IdleBatch]
  /\ sendLog = IF lastRequestTime = 0 THEN <<>> ELSE <<lastRequestTime>>
  /\ liveReturned = {a \in Ids : cache[a] # None}
  /\ liveStored = {a \in Ids : cache[a] # None}
  /\ norm = NormIdle
  /\ TitlesIdle
  /\ AppIdle

\* --------------------------------------------------------------- actions
\* searchAnidbAnime up to the loop: the keyword resolves to the page ids
StartBatch(b, ids) ==
  /\ batch[b].pc = "idle"
  /\ batch' = [batch EXCEPT ![b] =
                 [@ EXCEPT !.ids = ids,
                           !.pc = IF Len(ids) = 0 THEN "done" ELSE "loop"]]
  /\ UNCHANGED <<now, ticks, lastRequestTime, cache, titlesLoaded, otherModules, sendLog,
                 liveReturned, liveStored>>

\* one iteration starts: getAnimeByAid up to its first await that takes time
BeginLookup(b) ==
  LET st == batch[b]
      aid == st.ids[st.i]
      call == [st EXCEPT !.started = @ + 1, !.nSend = 0, !.nWrite = 0,
                         !.wrote = FALSE,
                         !.afterLive = aid \in liveReturned,
                         !.afterStored = aid \in liveStored]
  IN  /\ CanBeginLookup(st)
      /\ st.i <= Len(st.ids)
      /\ IF CacheGet(cache, aid) # None
         THEN /\ batch' = [batch EXCEPT ![b] =
                    CacheHit(call, now, CacheGet(cache, aid))]
              /\ UNCHANGED <<lastRequestTime, sendLog>>
         ELSE IF MayRequestNow(now, lastRequestTime)
         THEN /\ lastRequestTime' = now
              /\ batch' = [batch EXCEPT ![b] = Sent(call)]
              /\ sendLog' = LogSend(sendLog, now)
         ELSE /\ batch' = [batch EXCEPT ![b] =
                    [call EXCEPT !.pc = "rateWait",
                                 !.deadline = now + WaitTime(now, lastRequestTime)]]
              /\ UNCHANGED <<lastRequestTime, sendLog>>
      /\ UNCHANGED <<now, ticks, cache, titlesLoaded, otherModules, liveReturned, liveStored>>

\* the timer of waitForRequestInterval fires and the request is sent
RateTimerFires(b) ==
  /\ batch[b].pc = "rateWait"
  /\ now >= batch[b].deadline
  /\ lastRequestTime' = now
  /\ batch' = [batch EXCEPT ![b] = Sent(@)]
  /\ sendLog' = LogSend(sendLog, now)
  /\ UNCHANGED <<now, ticks, cache, titlesLoaded, otherModules, liveReturned, liveStored>>

\* the 100 ms timer of a cache hit fires: the cached record is returned
HitTimerFires(b) ==
  LET st == batch[b]
      out == [kind |-> "record", payload |-> st.cached, msg |-> "cache"]
  IN  /\ st.pc = "hitWait"
      /\ now >= st.deadline
      /\ batch' = [batch EXCEPT ![b] = Settle(st, st.ids[st.i], out)]
      /\ UNCHANGED <<now, ticks, lastRequestTime, cache, titlesLoaded, otherModules, sendLog,
                     liveReturned, liveStored>>

\* the HTTP request is answered (or fails): parse, store, return or throw
Response(b, shape, payload, writeOk) ==
  LET st == batch[b]
      aid == st.ids[st.i]
      out == GetAnimeOutcome(shape, payload)
      isRecord == out.kind = "record"
      stores == StoresOutcome(out)
  IN  /\ st.pc = "fetching"
      /\ shape # "anime" => (payload = "p1" /\ writeOk)
      /\ cache' = IF stores THEN SaveToCache(cache, aid, payload, writeOk)
                  ELSE cache
      /\ batch' = [batch EXCEPT ![b] =
             Settle([st EXCEPT !.nWrite = IF stores THEN @ + 1 ELSE @,
                               !.wrote = stores /\ writeOk],
                    aid, out)]
      /\ liveReturned' = IF isRecord THEN liveReturned \cup {aid} ELSE liveReturned
      /\ liveStored' = IF isRecord /\ writeOk THEN liveStored \cup {aid}
                       ELSE liveStored
      /\ UNCHANGED <<now, ticks, lastRequestTime, titlesLoaded, otherModules, sendLog>>

\* the loop is over: searchAnidbAnime returns its results
FinishBatch(b) ==
  /\ batch[b].pc = "loop"
  /\ batch[b].i > Len(batch[b].ids)
  /\ batch' = [batch EXCEPT ![b] = [@ EXCEPT !.pc = "done"]]
  /\ UNCHANGED <<now, ticks, lastRequestTime, cache, titlesLoaded, otherModules, sendLog,
                 liveReturned, liveStored>>

\* time passes
Tick(d) ==
  /\ ticks < MaxTicks
  /\ now' = now + d
  /\ ticks' = ticks + 1
  /\ UNCHANGED <<lastRequestTime, cache, titlesLoaded, otherModules, batch, sendLog,
                 liveReturned, liveStored>>

CallerStep(b) ==
  \/ \E ids \in Pages : StartBatch(b, ids)
  \/ BeginLookup(b)
  \/ RateTimerFires(b)
  \/ HitTimerFires(b)
  \/ \E shape \in ResponseShapes, payload \in Payloads, writeOk \in BOOLEAN :
       Response(b, shape, payload, writeOk)
  \/ FinishBatch(b)

\* overlapping searches
Next ==
  \/ \E b \in Callers : CallerStep(b)
  \/ \E d \in TickSteps : Tick(d)

Spec == Init /\ [][Next]_vars

\* one search running alone
NextSingle ==
  \/ CallerStep(1)
  \/ \E d \in TickSteps : Tick(d)

SpecSingle == InitSingle /\ [][NextSingle]_vars

\* a search running alone; the browser runs every due timer and every ready
\* continuation, the remote catalog need not answer
FairSingle ==
  /\ SpecSingle
  /\ WF_vars(BeginLookup(1))
  /\ WF_vars(RateTimerFires(1))
  /\ WF_vars(HitTimerFires(1))
  /\ WF_vars(FinishBatch(1))
  /\ WF_vars(\E d \in TickSteps : Tick(d))

\* ------------------------------------------- the normaliser, step by step
\* one response body, or one record read from the cache, is about to be
\* handled by the loop body of searchAnidbAnime
InitNorm ==
  /\ InitAnidb
  /\ TitlesIdle
  /\ AppIdle
  /\ norm \in {[NormIdle EXCEPT !.stage = "xml", !.origin = "response", !.doc = d] :
                  d \in ResponseDocs}
            \cup {[NormIdle EXCEPT !.stage = "data", !.origin = "cache", !.data = r] :
                  r \in CachedRecords}

\* getAnimeByAid: the response text is checked, parsed and extracted
Parse ==
  LET out == ParseResponse(norm.doc)
  IN  /\ norm.stage = "xml"
      /\ norm' = [norm EXCEPT !.out = out,
                              !.data = out.data,
                              !.stage = CASE out.kind = "record" -> "data"
                                          [] out.kind = "null" -> "null"
                                          [] OTHER -> "thrown"]
      /\ UNCHANGED <<anidbVars, titleVars, appVars>>

\* the loop body: convertAnidbToSearchResult(animeData)
Convert ==
  /\ norm.stage = "data"
  /\ norm' = [norm EXCEPT !.stage = "result",
                          !.result = ConvertAnidbToSearchResult(norm.data)]
  /\ UNCHANGED <<anidbVars, titleVars, appVars>>

\* the catch of the loop body: the entry built from the local titles
Fallback ==
  /\ norm.stage = "thrown"
  /\ norm' = IF HasLocalTitles(7)
             THEN [norm EXCEPT !.stage = "fallback", !.result = FallbackEntry(1, 7)]
             ELSE [norm EXCEPT !.stage = "dropped"]
  /\ UNCHANGED <<anidbVars, titleVars, appVars>>

NextNorm == Parse \/ Convert \/ Fallback

SpecNorm == InitNorm /\ [][NextNorm]_vars

\* --------------------------------------- the title index, step by step
InitTitles ==
  /\ InitAnidb
  /\ norm = NormIdle
  /\ TitlesIdle
  /\ AppIdle

\* a caller enters loadAnimeTitles and runs it up to its return
CallLoadAnimeTitles(c, kind) ==
  /\ titleCaller[c].pc = "idle"
  /\ IF titleIndex # "null"
     THEN /\ titleCaller' = [titleCaller EXCEPT ![c] =
                [@ EXCEPT !.pc = "awaiting", !.kind = kind, !.load = 0]]
          /\ UNCHANGED <<isLoading, loadPromise, loads>>
     ELSE IF SharesLoad(isLoading, loadPromise)
     THEN /\ titleCaller' = [titleCaller EXCEPT ![c] =
                [@ EXCEPT !.pc = "awaiting", !.kind = kind, !.load = loadPromise]]
          /\ UNCHANGED <<isLoading, loadPromise, loads>>
     ELSE /\ isLoading' = TRUE
          /\ loads' = Append(loads, [status |-> "pending", phase |-> "fetch",
                                     value |-> "null"])
          /\ loadPromise' = Len(loads) + 1
          /\ titleCaller' = [titleCaller EXCEPT ![c] =
                [@ EXCEPT !.pc = "awaiting", !.kind = kind, !.load = Len(loads) + 1]]
  /\ UNCHANGED <<anidbVars, norm, appVars, titleIndex>>

\* fetch('/anime-titles.dat') settles
FetchSettles(k, outcome) ==
  /\ loads[k].status = "pending"
  /\ loads[k].phase = "fetch"
  /\ IF outcome = "ok"
     THEN /\ loads' = [loads EXCEPT ![k] = [@ EXCEPT !.phase = "text"]]
          /\ UNCHANGED <<titleIndex, isLoading, loadPromise>>
     ELSE LoadFailed(k)
  /\ UNCHANGED <<anidbVars, norm, appVars, titleCaller>>

\* response.text() settles; the content is parsed into the index
TextSettles(k, outcome) ==
  /\ loads[k].status = "pending"
  /\ loads[k].phase = "text"
  /\ IF outcome = "rejected"
     THEN LoadFailed(k)
     ELSE /\ titleIndex' = outcome
          /\ isLoading' = FALSE
          /\ loads' = [loads EXCEPT ![k] =
                         [@ EXCEPT !.status = "resolved", !.value = outcome]]
          /\ UNCHANGED loadPromise
  /\ UNCHANGED <<anidbVars, norm, appVars, titleCaller>>

\* the await of a caller returns or throws
ResumeCaller(c) ==
  LET me == titleCaller[c]
      index == IF me.load = 0 THEN titleIndex ELSE loads[me.load].value
  IN  /\ me.pc = "awaiting"
      /\ me.load # 0 => loads[me.load].status # "pending"
      /\ titleCaller' = [titleCaller EXCEPT ![c] =
            [@ EXCEPT !.pc = "done", !.result = ResultOf(me.kind, index)]]
      /\ UNCHANGED <<anidbVars, norm, appVars, titleIndex, isLoading, loadPromise, loads>>

NextTitles ==
  \/ \E c \in TitleCallers, kind \in CallKinds : CallLoadAnimeTitles(c, kind)
  \/ \E k \in 1..Len(loads), outcome \in {"ok", "notOk", "rejected"} :
       FetchSettles(k, outcome)
  \/ \E k \in 1..Len(loads), outcome \in {"index", "emptyIndex", "rejected"} :
       TextSettles(k, outcome)
  \/ \E c \in TitleCallers : ResumeCaller(c)

SpecTitles == InitTitles /\ [][NextTitles]_vars

\* ------------------------------------------------- searching the title index
\* a keyword, a page and a page size, on some title index
InitSearch ==
  /\ InitAnidb
  /\ norm = NormIdle
  /\ TitlesIdle
  /\ search \in {[SearchIdle EXCEPT !.stage = "input", !.index = x, !.keyword = k,
                                    !.page = p, !.results = r] :
                   x \in TitleIndexes, k \in Keywords, p \in 1..MaxPage,
                   r \in 1..MaxResults}
  /\ TiersIdle
  /\ StorageIdle
  /\ searchModal = ModalIdle
  /\ titlesLoaded = search.index.loaded

\* searchAnimeTitles(keyword, results * page)
CallSearchAnimeTitles ==
  /\ search.stage = "input"
  /\ search' = [search EXCEPT
                  !.stage = "titles",
                  !.aids = SearchAnimeTitles(search.index, search.keyword,
                                             search.results * search.page)]
  /\ UNCHANGED <<anidbVars, norm, titleVars, tierVars, storageVars, searchModal>>

\* searchAnidbAnime(keyword, page, results) up to the loop over pageAids
CallSearchAnidbAnime ==
  /\ search.stage = "input"
  /\ LET r == SearchPage(search.index, search.keyword, search.page, search.results)
     IN  search' = [search EXCEPT !.stage = "page", !.aids = r.pageAids,
                                  !.consulted = r.consulted, !.more = r.more]
  /\ UNCHANGED <<anidbVars, norm, titleVars, tierVars, storageVars, searchModal>>

NextSearch == CallSearchAnimeTitles \/ CallSearchAnidbAnime

SpecSearch == InitSearch /\ [][NextSearch]_vars

\* ------------------------------------------------- tiers, rows and the modal
\* the page has loaded: onMounted has stored the default tiers (saveTierData)
InitTiers ==
  /\ InitAnidb
  /\ norm = NormIdle
  /\ TitlesIdle
  /\ search = SearchIdle
  /\ TiersIdle
  /\ titlesLoaded = FALSE
  /\ storageFull = FALSE
  /\ localStorage = SaveTierData([k \in StorageKeys |-> Absent], FALSE, DefaultTiers)
  /\ importExport = ImportExportIdle
  /\ searchModal = ModalIdle

\* every change of tiers runs the deep watcher, which calls saveTierData
TiersBecome(ts) ==
  /\ tiers' = ts
  /\ localStorage' = IF ts = tiers THEN localStorage
                     ELSE SaveTierData(localStorage, storageFull, ts)

\* the + button of a tier; the row goes to the first tier with that id
HandleAddRow(k) ==
  /\ ~showConfig
  /\ Len(tiers[FindTier(tiers, tiers[k].id)].rows) < MaxRows
  /\ TiersBecome(AddRow(tiers, tiers[k].id))
  /\ UNCHANGED <<anidbVars, norm, titleVars, search, searchModal, tierConfigs, showConfig,
                 localConfigs, storageFull, importExport>>

\* the x button of a row
HandleDeleteRow(k, r) ==
  /\ ~showConfig
  /\ TiersBecome(DeleteRow(tiers, tiers[k].id, tiers[k].rows[r].id))
  /\ UNCHANGED <<anidbVars, norm, titleVars, search, searchModal, tierConfigs, showConfig,
                 localConfigs, storageFull, importExport>>

\* the empty slot of a row, and a result picked in the search modal
HandleSelectAnime(k, r, anime) ==
  /\ ~showConfig
  /\ TiersBecome(SelectAnime(tiers, tiers[k].id, tiers[k].rows[r].id, anime))
  /\ UNCHANGED <<anidbVars, norm, titleVars, search, searchModal, tierConfigs, showConfig,
                 localConfigs, storageFull, importExport>>

\* showConfig = true mounts ConfigModal, whose immediate watcher copies
\* props.configs into localConfigs
OpenConfig ==
  /\ ~showConfig
  /\ showConfig' = TRUE
  /\ localConfigs' = tierConfigs
  /\ UNCHANGED <<anidbVars, norm, titleVars, search, searchModal, tiers, tierConfigs,
                 storageVars>>

\* an editing function of the modal
EditConfigs(configs) ==
  /\ showConfig
  /\ localConfigs' = configs
  /\ UNCHANGED <<anidbVars, norm, titleVars, search, searchModal, tiers, tierConfigs,
                 showConfig, storageVars>>

CallAddTier ==
  /\ Len(localConfigs) < MaxTiers
  /\ EditConfigs(AddTier(localConfigs))

CallRemoveTier(index) == EditConfigs(RemoveTier(localConfigs, index))

CallMoveUp(index) == EditConfigs(MoveUp(localConfigs, index))

CallMoveDown(index) == EditConfigs(MoveDown(localConfigs, index))

\* handleSave: emit('update', localConfigs) runs handleUpdateConfigs, then
\* emit('close')
HandleSave ==
  /\ showConfig
  /\ tierConfigs' = localConfigs
  /\ tiers' = UpdateConfigs(tiers, tierConfigs, localConfigs)
  /\ localStorage' =
       SaveTierData(SaveTierConfigs(localStorage, storageFull, localConfigs),
                    storageFull, UpdateConfigs(tiers, tierConfigs, localConfigs))
  /\ showConfig' = FALSE
  /\ localConfigs' = <<>>
  /\ UNCHANGED <<anidbVars, norm, titleVars, search, searchModal, storageFull,
                 importExport>>

\* handleClose
HandleClose ==
  /\ showConfig
  /\ showConfig' = FALSE
  /\ localConfigs' = <<>>
  /\ UNCHANGED <<anidbVars, norm, titleVars, search, searchModal, tiers, tierConfigs,
                 storageVars>>

\* handleClearAll, from the modal: the defaults are stored again, and the
\* watcher of the modal copies the new props.configs
HandleClearAll ==
  /\ showConfig
  /\ tierConfigs' = DEFAULT_TIER_CONFIGS
  /\ tiers' = DefaultTiers
  /\ localStorage' =
       SaveTitle(SaveTierData(SaveTierConfigs(localStorage, storageFull,
                                              DEFAULT_TIER_CONFIGS),
                              storageFull, DefaultTiers),
                 storageFull, <<"Tier List">>)
  /\ localConfigs' = DEFAULT_TIER_CONFIGS
  /\ UNCHANGED <<anidbVars, norm, titleVars, search, searchModal, showConfig,
                 storageFull, importExport>>

\* rows added and deleted, the configuration edited and saved, all cleared
NextTiers ==
  \/ \E k \in 1..Len(tiers) : HandleAddRow(k)
  \/ \E k \in 1..Len(tiers) : \E r \in 1..Len(tiers[k].rows) : HandleDeleteRow(k, r)
  \/ OpenConfig
  \/ CallAddTier
  \/ \E index \in 1..Len(localConfigs) : CallRemoveTier(index)
  \/ \E index \in 1..Len(localConfigs) : CallMoveUp(index)
  \/ \E index \in 1..Len(localConfigs) : CallMoveDown(index)
  \/ HandleSave
  \/ HandleClose
  \/ HandleClearAll

SpecTiers == InitTiers /\ [][NextTiers]_vars

\* rows added and filled, tiers removed and moved in the modal, and saved
NextConfigs ==
  \/ \E k \in 1..Len(tiers) : HandleAddRow(k)
  \/ \E k \in 1..Len(tiers) : \E r \in 1..Len(tiers[k].rows) : \E anime \in Animes :
       HandleSelectAnime(k, r, anime)
  \/ OpenConfig
  \/ \E index \in 1..Len(localConfigs) : CallRemoveTier(index)
  \/ \E index \in 1..Len(localConfigs) : CallMoveUp(index)
  \/ \E index \in 1..Len(localConfigs) : CallMoveDown(index)
  \/ HandleSave
  \/ HandleClose

SpecConfigs == InitTiers /\ [][NextConfigs]_vars

\* ------------------------------------------------------- the search modal
InitModal ==
  /\ InitAnidb
  /\ titlesLoaded = FALSE
  /\ norm = NormIdle
  /\ TitlesIdle
  /\ search = SearchIdle
  /\ TiersIdle
  /\ StorageIdle
  /\ searchModal = ModalIdle

ModalStep(m) ==
  /\ searchModal' = m
  /\ UNCHANGED <<anidbVars, norm, titleVars, search, tierVars, storageVars>>

\* the user edits the keyword: the watcher cancels the pending timer and arms
\* a new one
TypeKeyword(k) ==
  /\ k # searchModal.keyword
  /\ ModalStep([searchModal EXCEPT !.keyword = k, !.searchTimeout = TRUE])

\* the user picks another source: the same watcher
ChooseSource(a) ==
  /\ a # searchModal.apiSource
  /\ ModalStep([searchModal EXCEPT !.apiSource = a, !.searchTimeout = TRUE])

\* the debounce timer fires: handleSearch for a keyword that is not blank,
\* else the results are cleared
TimeoutFires ==
  /\ searchModal.searchTimeout
  /\ IF Trim(searchModal.keyword) # <<>>
     THEN /\ Len(searchModal.runs) < MaxRuns
          /\ ModalStep(StartSearch([searchModal EXCEPT !.searchTimeout = FALSE]))
     ELSE ModalStep([searchModal EXCEPT !.searchTimeout = FALSE, !.results = <<>>])

\* the request of run i is answered, or fails
SearchSettles(i, ok, more) ==
  /\ searchModal.runs[i].pc = "awaiting"
  /\ ModalStep(FinishSearch(searchModal, i, ok, more))

NextModal ==
  \/ \E k \in ModalKeywords : TypeKeyword(k)
  \/ \E a \in ApiSources : ChooseSource(a)
  \/ TimeoutFires
  \/ \E i \in 1..Len(searchModal.runs) : \E ok, more \in BOOLEAN :
       SearchSettles(i, ok, more)

SpecModal == InitModal /\ [][NextModal]_vars

\* -------------------------------------------------- import and export
\* a file is about to be imported into a browser that earlier sessions have
\* used, and whose storage may be full
InitStorage ==
  /\ InitAnidb
  /\ titlesLoaded = FALSE
  /\ norm = NormIdle
  /\ TitlesIdle
  /\ search = SearchIdle
  /\ TiersIdle
  /\ searchModal = ModalIdle
  /\ localStorage \in EarlierStores
  /\ storageFull \in BOOLEAN
  /\ importExport \in {[ImportExportIdle EXCEPT !.stage = "input", !.data = d,
                                                !.before = localStorage] :
                          d \in ImportFiles}

\* importAllData(data)
CallImportAllData ==
  /\ importExport.stage = "input"
  /\ localStorage' = ImportedStore(localStorage, storageFull, importExport.data)
  /\ importExport' = [importExport EXCEPT
                        !.stage = "imported",
                        !.success = ImportSuccess(importExport.data)]
  /\ UNCHANGED <<anidbVars, norm, titleVars, search, searchModal, tierVars,
                 storageFull>>

\* exportAllData()
CallExportAllData ==
  /\ importExport.stage = "imported"
  /\ importExport' = [importExport EXCEPT
                        !.stage = "exported",
                        !.exported = ExportAllData(localStorage)]
  /\ UNCHANGED <<anidbVars, norm, titleVars, search, searchModal, tierVars,
                 localStorage, storageFull>>

NextStorage == CallImportAllData \/ CallExportAllData

SpecStorage == InitStorage /\ [][NextStorage]_vars

\* ------------------------------------------------------------ properties
InFlight(st) == st.pc \in {"hitWait", "rateWait", "fetching"}
Settled(st) == Len(st.outcomes)

\* C1: while one search runs alone, two consecutive HTTP sends are never less
\* than REQUEST_INTERVAL apart, and lastRequestTime is the time of the last
\* send (set at the send, whatever happens to the request afterwards).
C1_MinGapOneBatch ==
  /\ Len(sendLog) = 2 => sendLog[2] - sendLog[1] >= REQUEST_INTERVAL
  /\ sendLog # <<>> => lastRequestTime = sendLog[Len(sendLog)]

\* C1 witness: the lookup of position 1 was a live fetch that failed, and the
\* request for position 2 has just been sent exactly REQUEST_INTERVAL after
\* the send before it.
C1_Witness ==
  /\ batch[1].pc = "fetching"
  /\ batch[1].i = 2
  /\ batch[1].outcomes[1] = "AnidbError"
  /\ Len(sendLog) = 2
  /\ sendLog[2] - sendLog[1] = REQUEST_INTERVAL
  /\ now = sendLog[2]

\* C2: with overlapping searches too, no two HTTP sends are closer together
\* than REQUEST_INTERVAL.
C2_MinGapProcessWide ==
  \A k \in 1..(Len(sendLog) - 1) : sendLog[k + 1] - sendLog[k] >= REQUEST_INTERVAL

\* the entries a finished or running search must hold, given how the lookups
\* of positions 1..n ended: a record gives an entry, a thrown error gives an
\* entry built from the local titles when there are any, null gives nothing
RECURSIVE ExpectedPositions(_, _)
ExpectedPositions(st, n) ==
  IF n = 0 THEN <<>>
  ELSE LET before == ExpectedPositions(st, n - 1)
       IN  IF \/ st.outcomes[n] = "record"
              \/ st.outcomes[n] = "AnidbError" /\ HasLocalTitles(st.ids[n])
           THEN Append(before, n) ELSE before

\* C3: the entries of the result are in the order of the input ids.
C3_OutputInInputOrder ==
  \A b \in Callers :
    LET st == batch[b]
    IN  /\ \A j, k \in 1..Len(st.results) :
              j < k => st.results[j].pos < st.results[k].pos
        /\ \A j \in 1..Len(st.results) :
              /\ st.results[j].pos \in 1..Len(st.ids)
              /\ st.results[j].aid = st.ids[st.results[j].pos]

\* C3 witness: a finished search whose result holds a cached record followed
\* by a fetched one, for the ids 2 and 1 in that order.
C3_Witness ==
  /\ batch[1].pc = "done"
  /\ batch[1].ids = <<2, 1>>
  /\ Len(batch[1].results) = 2
  /\ batch[1].results[1].src = "cache" /\ batch[1].results[1].aid = 2
  /\ batch[1].results[2].src = "api" /\ batch[1].results[2].aid = 1

C5_FailureNeverAborts ==
  \A b \in Callers :
    LET st == batch[b]
    IN  /\ st.pc # "rejected"
        /\ st.pc = "done" => st.started = Len(st.ids) /\ Settled(st) = Len(st.ids)
        /\ st.pc = "loop" => st.i = Settled(st) + 1 /\ st.started = Settled(st)

\* C5 witness: the first lookup of a page failed and the next one was still
\* made.
C5_Witness ==
  /\ batch[1].pc = "done"
  /\ Len(batch[1].ids) = 2
  /\ batch[1].started = 2
  /\ batch[1].outcomes = <<"AnidbError", "record">>

\* C6 as stated: once a live fetch of an id has returned a record, no call for
\* that id begun later goes to the network.
C6_NoSecondRequest ==
  \A b \in Callers :
    batch[b].afterLive => batch[b].pc \notin {"rateWait", "fetching"}

\* C6 amended: once a live fetch of an id has returned a record and the record
\* has been stored, a call for that id begun later sends no request and
\* returns a record read from the cache.
C6_NoSecondRequestOnceStored ==
  \A b \in Callers :
    LET st == batch[b]
    IN  st.afterStored =>
          /\ st.pc \notin {"rateWait", "fetching"}
          /\ st.nSend = 0 /\ st.nWrite = 0
          /\ st.pc = "hitWait" => st.cached \in Payloads
          /\ (st.pc \in {"loop", "done"} /\ st.started = Settled(st)) =>
                /\ st.outcomes[Settled(st)] = "record"
                /\ st.results[Len(st.results)].src = "cache"
                /\ st.results[Len(st.results)].pos = Settled(st)

\* C6 witness: a second search has been served the record that the first
\* search fetched and stored.
C6_Witness ==
  /\ batch[1].pc = "done"
  /\ Len(batch[1].results) = 1 /\ batch[1].results[1].src = "api"
  /\ batch[2].afterStored
  /\ batch[2].pc = "loop"
  /\ Len(batch[2].results) = 1
  /\ batch[2].results[1].src = "cache"
  /\ batch[2].results[1].aid = batch[1].results[1].aid
  /\ batch[2].results[1].payload = batch[1].results[1].payload

\* C7: an entry of the persisted cache is never removed.
C7_NeverEvicted ==
  [][\A a \in Ids : cache[a] # None => cache'[a] # None]_vars

\* C7 witness: two overlapping searches have both fetched id 1 and written
\* it, the write for id 2 has failed, and the entry of id 1 is still there.
C7_Witness ==
  /\ cache[1] # None
  /\ 2 \in liveReturned \ liveStored
  /\ \A b \in {1, 2} : \E j \in 1..Len(batch[b].results) :
        batch[b].results[j].src = "api" /\ batch[b].results[j].aid = 1

\* C8: a search has at most one lookup in flight, the lookup of a position
\* begins only when the lookups of all earlier positions have settled and
\* their entries are in the result, and one lookup sends at most one request
\* and writes the cache at most once.
C8_OneLookupAtATime ==
  \A b \in Callers :
    LET st == batch[b]
    IN  /\ st.started - Settled(st) \in {0, 1}
        /\ InFlight(st) <=> st.started = Settled(st) + 1
        /\ InFlight(st) =>
              /\ st.i = Settled(st) + 1
              /\ Len(st.results) = Len(ExpectedPositions(st, Settled(st)))
              /\ \A j \in 1..Len(st.results) : st.results[j].pos < st.i
        /\ st.nSend <= 1
        /\ st.nWrite <= 1
        /\ st.nWrite = 1 => st.nSend = 1

\* C8 witness: the lookup of position 2 is waiting for its answer, the entry
\* of position 1 is in the result.
C8_Witness ==
  /\ batch[1].pc = "fetching"
  /\ batch[1].i = 2
  /\ batch[1].nSend = 1
  /\ Len(batch[1].results) = 1
  /\ batch[1].results[1].pos = 1

C10_RequestTimesOut ==
  \A b \in Callers : (batch[b].pc = "fetching") ~> (batch[b].pc # "fetching")

\* C11: a cache hit does not consume the rate-limit budget.  The call that
\* finds its id in the cache arms a timer of CACHE_HIT_DELAY, returns the
\* record it read no earlier than that, sends no request and writes nothing;
\* neither of its two steps changes lastRequestTime, the persisted cache or
\* the sends made.  The wait of a cache miss is computed from lastRequestTime
\* alone, so it is the same after a hit as without it.
C11_CacheHitFrame ==
  [][\A b \in Callers :
       LET st == batch[b]
           st2 == batch'[b]
       IN  /\ (st.pc # "hitWait" /\ st2.pc = "hitWait") =>
                /\ st2.deadline = now + CACHE_HIT_DELAY
                /\ st2.cached = cache[st.ids[st.i]]
                /\ st2.cached # None
                /\ st2.nSend = 0 /\ st2.nWrite = 0
                /\ UNCHANGED <<lastRequestTime, cache, sendLog>>
           /\ (st.pc = "hitWait" /\ st2.pc # "hitWait") =>
                /\ now >= st.deadline
                /\ st2.pc = "loop"
                /\ st2.outcomes = Append(st.outcomes, "record")
                /\ st2.results =
                     Append(st.results,
                            [pos |-> st.i, aid |-> st.ids[st.i], src |-> "cache",
                             payload |-> st.cached])
                /\ st2.nSend = 0 /\ st2.nWrite = 0
                /\ UNCHANGED <<lastRequestTime, cache, sendLog>>
           /\ (st.pc # "rateWait" /\ st2.pc = "rateWait") =>
                /\ st2.deadline = lastRequestTime + REQUEST_INTERVAL
                /\ UNCHANGED lastRequestTime
    ]_vars

\* C11 witness: a request was sent half a window before the page began; the
\* first id of the page was a cache hit that returned after CACHE_HIT_DELAY,
\* and the miss that follows waits until the end of that same window.
C11_Witness ==
  /\ batch[1].pc = "rateWait"
  /\ batch[1].i = 2
  /\ Len(batch[1].results) = 1
  /\ batch[1].results[1].src = "cache"
  /\ now = StartTime + CACHE_HIT_DELAY
  /\ lastRequestTime = StartTime - REQUEST_INTERVAL \div 2
  /\ batch[1].deadline = StartTime + REQUEST_INTERVAL \div 2

\* C12: the persisted cache holds only records that a live fetch returned and
\* stored.  When a live fetch settles with a record, saveToCache has been
\* called once and, if its write went through, the cache holds that record
\* for the id (no other entry has changed); when it settles with a failure or
\* with null, nothing was written and the cache is as it was.
C12_CacheOnlyFetchedRecords ==
  [][/\ \A a \in Ids :
          cache'[a] # None => a \in liveStored' /\ cache'[a] \in Payloads
     /\ \A b \in Callers :
          LET st == batch[b]
              st2 == batch'[b]
              aid == st.ids[st.i]
          IN  (st.pc = "fetching" /\ st2.pc # "fetching") =>
                IF st2.outcomes[Len(st2.outcomes)] = "record"
                THEN /\ st2.nWrite = 1
                     /\ st2.wrote =>
                          cache'[aid] = st2.results[Len(st2.results)].payload
                     /\ \A a \in Ids \ {aid} : cache'[a] = cache[a]
                ELSE /\ st2.nWrite = 0
                     /\ cache' = cache
    ]_vars

\* C12 witness: the first lookup of a page fetched a record and stored it,
\* the second one failed and left no entry.
C12_Witness ==
  /\ batch[1].pc = "done"
  /\ batch[1].outcomes = <<"record", "AnidbError">>
  /\ batch[1].results[1].src = "api"
  /\ cache[batch[1].ids[1]] = batch[1].results[1].payload
  /\ cache[batch[1].ids[2]] = None

\* C13: when the write of saveToCache fails, the lookup still returns the
\* fetched record, saveToCache is not called again, and the persisted cache
\* is exactly what it was.
C13_FailedWriteKeepsResult ==
  [][\A b \in Callers :
       LET st == batch[b]
           st2 == batch'[b]
       IN  (st.pc = "fetching" /\ st2.pc # "fetching"
              /\ st2.nWrite = 1 /\ ~st2.wrote) =>
             /\ st2.pc = "loop"
             /\ st2.outcomes = Append(st.outcomes, "record")
             /\ Len(st2.results) = Len(st.results) + 1
             /\ st2.results[Len(st2.results)].src = "api"
             /\ st2.results[Len(st2.results)].pos = st.i
             /\ st2.results[Len(st2.results)].payload \in Payloads
             /\ st2.nSend = 1
             /\ cache' = cache
    ]_vars

\* C13 witness: the cache held id 2; the record fetched for id 1 was returned
\* although its write failed, and the cache still holds id 2 only.
C13_Witness ==
  /\ batch[1].pc = "loop"
  /\ batch[1].nWrite = 1 /\ ~batch[1].wrote
  /\ Len(batch[1].results) = 1
  /\ batch[1].results[1].src = "api" /\ batch[1].results[1].aid = 1
  /\ cache[1] = None /\ cache[2] = "p1"

\* C16: when a search is over, the time since its loop began is at least
\* (cache misses) * REQUEST_INTERVAL + (cache hits) * CACHE_HIT_DELAY.  The
\* loop begins at StartTime or later, so the time elapsed is at most
\* now - StartTime.
C16_ElapsedLowerBound ==
  \A b \in Callers :
    LET st == batch[b]
        hits == Cardinality({j \in 1..Len(st.results) : st.results[j].src = "cache"})
        misses == Len(st.ids) - hits
    IN  st.pc = "done" =>
          now - StartTime >= misses * REQUEST_INTERVAL + hits * CACHE_HIT_DELAY

\* C14: whenever the answer to a live request is an error element whose text
\* contains 'banned', with or without attributes on the element, the lookup
\* fails with the failure that carries the remediation guidance.
C14_BannedGivesGuidance ==
  (/\ norm.origin = "response"
   /\ norm.stage \notin {"idle", "xml"}
   /\ norm.doc.root = "error"
   /\ IncludesBanned(norm.doc.errText)) =>
     /\ norm.out.kind = "AnidbError"
     /\ norm.out.msg = "banned"

\* C15: a response with an anime element that has an id and a title gives a
\* record with a non-empty id and a non-empty name; a response whose anime
\* element lacks the id or any title fails with a Malformed failure, and no
\* record with an empty id or name is returned.
C15_RequiredFieldsOrMalformed ==
  (/\ norm.origin = "response"
   /\ norm.stage \notin {"idle", "xml"}
   /\ norm.doc.root = "anime") =>
     IF /\ norm.doc.id # ""
        /\ \E k \in 1..Len(norm.doc.titles) : norm.doc.titles[k].text # ""
     THEN /\ norm.out.kind = "record"
          /\ norm.data.id # ""
          /\ norm.stage = "result" =>
               norm.result.name # "" /\ norm.result.aid # "NaN"
     ELSE /\ norm.out.kind = "AnidbError"
          /\ norm.out.msg = "malformed"

\* C17: a record whose picture field is missing, empty or only whitespace is
\* converted to an entry whose four image references are the empty string;
\* whenever an image reference is not empty the picture field held some
\* text; the four references are always the same; and the entry built from
\* the local titles after a failed lookup has four empty references.
C17_NoPictureNoUrl ==
  LET images == norm.result.images
      allEmpty == /\ images.small = <<>> /\ images.grid = <<>>
                  /\ images.large = <<>> /\ images.medium = <<>>
      blank == \/ ~norm.data.picture.present
               \/ \A k \in 1..Len(norm.data.picture.text) :
                     norm.data.picture.text[k] = " "
  IN  /\ norm.stage = "result" =>
           /\ blank <=> allEmpty
           /\ images.small = images.medium /\ images.grid = images.medium
           /\ images.large = images.medium
      /\ norm.stage = "fallback" => allEmpty

\* C17 witness: a cached record whose picture field is two blanks has been
\* converted.
C17_Witness ==
  /\ norm.stage = "result"
  /\ norm.origin = "cache"
  /\ norm.data.picture.present
  /\ norm.data.picture.text = <<" ", " ">>
  /\ norm.result.images.medium = <<>>

\* C18: for a picture value that is a file reference, the image reference is
\* built from the digits left after stripping the path and a known extension;
\* when what is left is not all digits, the image reference is the raw
\* picture value and the entry is flagged.
C18_FileReference ==
  LET value == Trim(norm.data.picture.text)
      stem == StripExtension(FileName(value))
      images == norm.result.images
  IN  (/\ norm.stage = "result"
       /\ norm.data.picture.present
       /\ value # <<>>
       /\ ~IsFullUrl(value)) =>
         IF IsDigits(stem)
         THEN images.medium = <<CdnPrefix>> \o stem \o <<".jpg">>
         ELSE /\ images.medium = norm.data.picture.text
              /\ "flagged" \in DOMAIN norm.result

\* C19: a failure to load the title dataset degrades and does not crash.  No
\* caller of loadAnimeTitles ends with a rejection; when the load a caller
\* waited for has failed, or the file held no entry, initAnimeTitles resolves,
\* searchAnimeTitles and getAnimeTitles return an empty list, and
\* searchAnidbAnime returns no results before its loop, so it sends nothing.
C19_LoadFailureDegrades ==
  \A c \in TitleCallers :
    LET me == titleCaller[c]
        failed == me.load # 0 /\ loads[me.load].status = "rejected"
        noEntries == titleIndex = "emptyIndex"
    IN  /\ me.result # "rejected"
        /\ (me.pc = "done" /\ (failed \/ noEntries)) =>
              /\ me.kind = "initAnimeTitles" => me.result = "void"
              /\ me.kind \in {"searchAnimeTitles", "getAnimeTitles"} =>
                   me.result = "empty"
              /\ me.kind = "searchAnidbAnime" => me.result = "noResults"

\* C19 witness: the load failed; initAnimeTitles has resolved and
\* searchAnidbAnime has returned no results.
C19_Witness ==
  /\ Len(loads) = 1 /\ loads[1].status = "rejected"
  /\ titleCaller[1] = [pc |-> "done", kind |-> "initAnimeTitles", load |-> 1,
                       result |-> "void"]
  /\ titleCaller[2] = [pc |-> "done", kind |-> "searchAnidbAnime", load |-> 1,
                       result |-> "noResults"]

\* C20: the title dataset is loaded once.  At most one fetch is in flight, and
\* isLoading tells whether one is; a caller that arrives during a load waits
\* for that load and starts none; callers of the same function that waited for
\* the same load get the same result; once a load has succeeded the index
\* stays and no fetch is started; a fetch is started only when every earlier
\* load has failed.
C20_LoadedOnce ==
  [][/\ Cardinality({k \in 1..Len(loads') : loads'[k].status = "pending"}) <= 1
     /\ isLoading' <=> \E k \in 1..Len(loads') : loads'[k].status = "pending"
     /\ Len(loads') > Len(loads) =>
          /\ titleIndex = "null"
          /\ \A k \in 1..Len(loads) : loads[k].status = "rejected"
     /\ titleIndex # "null" =>
          /\ titleIndex' = titleIndex
          /\ Len(loads') = Len(loads)
     /\ \A c \in TitleCallers :
          (titleCaller[c].pc = "idle" /\ titleCaller'[c].pc = "awaiting") =>
            \A k \in 1..Len(loads) :
              loads[k].status = "pending" =>
                titleCaller'[c].load = k /\ loads' = loads
     /\ \A c, d \in TitleCallers :
          (/\ titleCaller'[c].pc = "done" /\ titleCaller'[d].pc = "done"
           /\ titleCaller'[c].load = titleCaller'[d].load
           /\ titleCaller'[c].load # 0
           /\ titleCaller'[c].kind = titleCaller'[d].kind) =>
             titleCaller'[c].result = titleCaller'[d].result
    ]_vars

\* C20 witness: two calls of searchAnimeTitles were made during one load and
\* both got the matches from the index it produced; one fetch was made.
C20_Witness ==
  /\ Len(loads) = 1 /\ loads[1].status = "resolved"
  /\ titleIndex = "index"
  /\ \A c \in {1, 2} :
       titleCaller[c] = [pc |-> "done", kind |-> "searchAnimeTitles", load |-> 1,
                         result |-> "aids"]

\* ------------------------------------------------ searchAnimeTitles: results
\* the call of searchAnimeTitles that has returned search.aids
TitlesReturned == search.stage = "titles"
SearchLimit == search.results * search.page
SearchKeywordLower == Trim(LowerText(search.keyword))
\* indexOf
IndexOf(xs, x) == CHOOSE k \in 1..Len(xs) : xs[k] = x
\* the order in which the index produced the matching ids
ProducedOrder == MatchedAids(search.index.lines, SearchKeywordLower, SearchLimit)
HasPrimaryMatch(aid) == HasPrimary(search.index.lines, aid, SearchKeywordLower)
HasChineseMatch(aid) == HasChinese(search.index.lines, aid, SearchKeywordLower)
HasMatch(aid) ==
  \E k \in 1..Len(search.index.lines) :
    /\ search.index.lines[k].aid = aid
    /\ Includes(LowerText(search.index.lines[k].title), SearchKeywordLower)

\* at most limit ids, no duplicates, every id matches the trimmed keyword
\* ignoring case, ids with a matching primary title first
C21_MatchesRankedByPrimary ==
  TitlesReturned =>
    /\ Len(search.aids) <= SearchLimit
    /\ \A i, j \in 1..Len(search.aids) : i # j => search.aids[i] # search.aids[j]
    /\ \A i \in 1..Len(search.aids) : HasMatch(search.aids[i])
    /\ \A i, j \in 1..Len(search.aids) :
         HasPrimaryMatch(search.aids[i]) /\ ~HasPrimaryMatch(search.aids[j]) => i < j

\* C21 as stated: searchAnimeTitles returns at most limit ids without
\* duplicates, each with a title that contains the trimmed keyword ignoring
\* case, ids with a matching primary title before ids without one, and ids of
\* equal rank (alike in having a matching primary title) in the order in which
\* the index produced them.
C21_RankedByPrimaryOnly ==
  /\ C21_MatchesRankedByPrimary
  /\ TitlesReturned =>
       \A i, j \in 1..Len(search.aids) :
         /\ HasPrimaryMatch(search.aids[i]) = HasPrimaryMatch(search.aids[j])
         /\ IndexOf(ProducedOrder, search.aids[i]) < IndexOf(ProducedOrder, search.aids[j])
         => i < j

\* C21, amended: searchAnimeTitles returns at most limit ids without
\* duplicates, each with a title that contains the trimmed keyword ignoring
\* case, ids with a matching primary title before ids without one, among ids
\* alike in that ids with a matching Chinese title before ids without one, and
\* ids alike in both in the order in which the index produced them.
C21_RankedByPrimaryThenChinese ==
  /\ C21_MatchesRankedByPrimary
  /\ TitlesReturned =>
       \A i, j \in 1..Len(search.aids) :
         /\ HasPrimaryMatch(search.aids[i]) = HasPrimaryMatch(search.aids[j])
         => /\ HasChineseMatch(search.aids[i]) /\ ~HasChineseMatch(search.aids[j])
               => i < j
            /\ /\ HasChineseMatch(search.aids[i]) = HasChineseMatch(search.aids[j])
               /\ IndexOf(ProducedOrder, search.aids[i])
                    < IndexOf(ProducedOrder, search.aids[j])
               => i < j

\* two ids come back, the one with a matching Chinese title in front although
\* the index produced it second, for a keyword given with a capital and a blank
C21_Witness ==
  /\ TitlesReturned
  /\ search.keyword = <<" ", "K">>
  /\ Len(search.aids) = 2
  /\ ~HasPrimaryMatch(search.aids[1]) /\ ~HasPrimaryMatch(search.aids[2])
  /\ HasChineseMatch(search.aids[1]) /\ ~HasChineseMatch(search.aids[2])
  /\ IndexOf(ProducedOrder, search.aids[1]) = 2

\* every id of the index with a title that contains the keyword
AllMatching == {a \in Ids : HasMatch(a)}
LeftOut == AllMatching \ {search.aids[k] : k \in 1..Len(search.aids)}
HasExactMatch(aid) ==
  \E k \in 1..Len(search.index.lines) :
    /\ search.index.lines[k].aid = aid
    /\ LowerText(search.index.lines[k].title) = SearchKeywordLower

\* C25: when more than limit ids match, searchAnimeTitles returns the top of
\* the ranking over all matching ids: it returns no id without a matching
\* primary title while it leaves out an id that has a matching primary title
\* or an exact title match.
C25_TopOfAllMatches ==
  TitlesReturned /\ Cardinality(AllMatching) > SearchLimit =>
    \A k \in 1..Len(search.aids) : \A b \in LeftOut :
      ~HasPrimaryMatch(search.aids[k]) =>
        ~HasPrimaryMatch(b) /\ ~HasExactMatch(b)

\* the call of searchAnidbAnime that has worked out the ids of its page
PageReturned == search.stage = "page"

\* C26: the more flag of searchAnidbAnime is true exactly when the title index
\* holds more than page * results ids that match the keyword.
C26_MoreIsAccurate ==
  PageReturned =>
    (search.more <=> Cardinality(AllMatching) > search.page * search.results)

\* C23: a keyword of digits only is a direct AID query: searchAnidbAnime does
\* not call the title search and looks up exactly the id the keyword names, on
\* the first page, whether or not the title index could be loaded.
C23_DigitsAreDirectAid ==
  PageReturned /\ IsDigits(Trim(search.keyword)) /\ search.page = 1 =>
    /\ ~search.consulted
    /\ search.aids = <<ParseInt(Trim(search.keyword))>>

\* C22: when the lookup of an id gives no record (it throws, or it returns no
\* data), the result of a finished search still has an entry for the id, built
\* from its local titles, if the local index has titles for it.
C22_NoRecordShownFromTitles ==
  \A b \in Callers :
    LET st == batch[b]
    IN  st.pc = "done" =>
          \A p \in 1..Len(st.ids) :
            st.outcomes[p] # "record" /\ HasLocalTitles(st.ids[p]) =>
              \E j \in 1..Len(st.results) :
                /\ st.results[j].pos = p
                /\ st.results[j].aid = st.ids[p]
                /\ st.results[j].src = "titles"

\* --------------------------------------------------------- tiers and rows
\* C24: every tier has one or more rows after any sequence of handleAddRow,
\* handleDeleteRow, handleUpdateConfigs and handleClearAll from the default
\* tiers, and handleDeleteRow on a tier with exactly one row changes nothing.
C24_EveryTierKeepsARow ==
  /\ \A k \in 1..Len(tiers) : Len(tiers[k].rows) >= 1
  /\ \A k \in 1..Len(tiers) : \A r \in 1..Len(tiers[k].rows) :
       Len(tiers[FindTier(tiers, tiers[k].id)].rows) = 1 =>
         DeleteRow(tiers, tiers[k].id, tiers[k].rows[r].id) = tiers

\* C24 witness: a tier is down to one row, the one added second: its first
\* row was deleted, and a further handleDeleteRow meets the last row
C24_Witness ==
  \E k \in 1..Len(tiers) :
    /\ FindTier(tiers, tiers[k].id) = k
    /\ Len(tiers[k].rows) = 1
    /\ tiers[k].rows[1].id.n = 1

\* C29: no two rows of a tier have the same id.
C29_RowIdsUnique ==
  \A k \in 1..Len(tiers) : \A i, j \in 1..Len(tiers[k].rows) :
    i # j => tiers[k].rows[i].id # tiers[k].rows[j].id

\* the items of the rows of the tier with this id, row by row
ItemsOfTier(ts, tierId) ==
  LET rows == ts[FindTier(ts, tierId)].rows
  IN  [r \in 1..Len(rows) |-> rows[r].items]

TierIds(ts) == {ts[k].id : k \in 1..Len(ts)}

\* C28: when the configuration edited with removeTier, moveUp and moveDown is
\* saved, every tier id that exists before and after the save holds the rows
\* and items it held before.
C28_SaveKeepsItems ==
  [][HandleSave =>
       \A id \in TierIds(tiers) \cap TierIds(tiers') :
         ItemsOfTier(tiers', id) = ItemsOfTier(tiers, id)]_vars

\* ------------------------------------------------------- the search modal
\* no timer is pending, no run is awaiting its answer, and the keyword is
\* one that handleSearch searches for
ModalQuiescent ==
  /\ ~searchModal.searchTimeout
  /\ Trim(searchModal.keyword) # <<>>
  /\ searchModal.runs # <<>>
  /\ \A i \in 1..Len(searchModal.runs) : searchModal.runs[i].pc = "finished"

LastStarted == searchModal.runs[Len(searchModal.runs)]

\* C27: when the handleSearch runs of the modal have all finished, results and
\* hasMore are those of the run started last, and loading is true as long as
\* the run started last has not finished.
C27_LastStartedWins ==
  /\ ModalQuiescent =>
       /\ searchModal.results =
            IF LastStarted.ok
            THEN DataOf(LastStarted.keyword, LastStarted.apiSource) ELSE <<>>
       /\ LastStarted.ok => searchModal.hasMore = LastStarted.more
  /\ searchModal.runs # <<>> /\ LastStarted.pc = "awaiting" => searchModal.loading

\* -------------------------------------------------- import and export
\* C30: importAllData on data without tiers or without tierConfigs returns
\* success false and leaves every key of the storage as it was; after an
\* importAllData that returned success true, exportAllData returns the
\* imported tiers and tierConfigs and, for an imported title that is not
\* blank, that title trimmed.
C30_ImportAllOrNothingRoundTrip ==
  LET data == importExport.data
  IN  /\ /\ importExport.stage \in {"imported", "exported"}
         /\ ~data.hasTiers \/ ~data.hasConfigs
         => /\ ~importExport.success
            /\ localStorage = importExport.before
      /\ importExport.stage = "exported" /\ importExport.success =>
           /\ importExport.exported.tiers = data.tiers
           /\ importExport.exported.tierConfigs = data.tierConfigs
           /\ Trim(data.title) # <<>> =>
                importExport.exported.title = Trim(data.title)

====
